---- MODULE Spec2Model ----
(***************************************************************************)
(* The recording storage service (AsyncStorage ledger under the key        *)
(* 'recordings' plus the blob files of the recordings directory).          *)
(*                                                                         *)
(* JavaScript values are pairs <<kind, n>>, so that any two of them can be *)
(* compared.  Objects are functions from a set of keys to values.  Every   *)
(* awaited platform call (getInfoAsync, copyAsync, getItem, setItem,       *)
(* deleteAsync) either succeeds or rejects; which one rejects in a call is *)
(* the call's `fault` input.  Operations run to completion one at a time.  *)
(***************************************************************************)
EXTENDS Integers, Sequences, FiniteSets, TLC

\* Number of uuids (saveRecording calls that get past the directory check).
MaxSaves == 2

----------------------------------------------------------------------------
\* JavaScript values

Null == <<"null", 0>>
Undefined == <<"undefined", 0>>
Num(n) == <<"number", n>>
Str(s) == <<s, 0>>

\* uuidv4(): the n-th identifier generated; identifiers never repeat.
uuidv4(n) == <<"uuid", n>>

\* `recording_${id}.m4a`
filenameOf(id) == <<"recording_" \o id[1] \o ".m4a", id[2]>>

\* `${RECORDINGS_DIRECTORY}${filename}`
RECORDINGS_DIRECTORY == "documentDirectory/recordings/"
destinationUriOf(filename) == <<RECORDINGS_DIRECTORY \o filename[1], filename[2]>>

\* new Date().toISOString() during the n-th save
toISOString(n) == <<"time", n>>

\* A file of the recordings directory.
InDirectory(path) == path[1] = destinationUriOf(filenameOf(uuidv4(0)))[1]

\* Temporary files handed to saveRecording; only the first one exists.
TmpFile(n) == <<"cache/tmp.m4a", n>>
SourceUris == {TmpFile(1), TmpFile(2)}

\* obj.key, undefined for a missing key
Get(obj, key) == IF key \in DOMAIN obj THEN obj[key] ELSE Undefined

\* { ...a, ...b }
Spread(a, b) ==
  [k \in DOMAIN a \cup DOMAIN b |-> IF k \in DOMAIN b THEN b[k] ELSE a[k]]

\* x || 0
OrZero(x) == IF x \in {Undefined, Null, Num(0)} THEN Num(0) ELSE x

EmptyObject == [k \in {} |-> Null]

----------------------------------------------------------------------------
\* JSON

\* JSON.stringify of an object leaves out the keys whose value is undefined.
stringifyObject(obj) ==
  [k \in {j \in DOMAIN obj : obj[j] # Undefined} |-> obj[k]]

\* JSON.stringify(list): the stored item.
JSONstringify(list) ==
  [kind |-> "json", list |-> [i \in 1..Len(list) |-> stringifyObject(list[i])]]

NullItem == [kind |-> "null", list |-> <<>>]
CorruptItem == [kind |-> "corrupt", list |-> <<>>]

\* recordingsJson ? JSON.parse(recordingsJson) : []   (JSON.parse throws on a
\* corrupt item: ParseThrows)
ParseThrows(it) == it.kind = "corrupt"
parseOrEmpty(it) == IF it.kind = "json" THEN it.list ELSE <<>>

----------------------------------------------------------------------------
\* Inputs

Custom == Str("caller")

Metadatas ==
  { EmptyObject,
    [id |-> uuidv4(1), filename |-> Custom, uri |-> TmpFile(1), createdAt |-> Custom,
     duration |-> Num(42)] }

Updates ==
  { [analysisResult |-> Str("positive")],
    [id |-> uuidv4(2)] }

Ids == {uuidv4(n) : n \in 1..MaxSaves}

Faults ==
  {"none", "getInfoAsync", "copyAsync", "getItem", "setItem", "deleteAsync",
   "getFreeDiskStorageAsync"}

----------------------------------------------------------------------------
\* State

VARIABLES
  item,         \* AsyncStorage value under RECORDINGS_METADATA_KEY
  files,        \* paths of the files that exist
  dirExists,    \* the recordings directory exists
  uuidCounter,  \* number of uuids generated so far
  last,         \* the last completed call: its inputs and what the caller got
  live,         \* ids returned by saveRecording and not deleted since
  run,          \* records returned by the saves since the last other call
  base          \* the ledger before the first save of run

\* The authentication backend: the users collection, the last request and its
\* response.
VARIABLE auth

\* The callers of the storage service whose calls may overlap: for each, the
\* call in flight, the await it is suspended at, and its local variables.
VARIABLE tasks

\* The record screen: its React state, its refs, the active intervals and
\* the async calls its handlers are suspended at.
VARIABLE screen

\* What a call of the storage service leaves alone.
others == <<auth, tasks, screen>>

vars ==
  <<item, files, dirExists, uuidCounter, last, live, run, base, auth, tasks, screen>>

storageVars == <<item, files, dirExists, uuidCounter, last, live, run, base>>

Tasks == {"a", "b"}

IdleTask ==
  [op |-> "none", pc |-> "returned", id |-> Null, rec |-> <<>>,
   recordings |-> <<>>, alone |-> TRUE, status |-> ""]

\* Bounds of the record screen: intervals active at once, start, pause and
\* resume calls pending at once, seconds counted.
MaxTimers == 2
MaxPending == 2
MaxDuration == 2

\* useState(false) x3, useState(0), useRef(null) x2; nothing pending.
ScreenInit ==
  [isRecording |-> FALSE, isPaused |-> FALSE, isSaving |-> FALSE,
   recordingDuration |-> 0, recording |-> "null", timerRef |-> 0,
   intervals |-> {}, starts |-> 0, pauses |-> 0, resumes |-> 0,
   stopping |-> "no", stopped |-> FALSE]

AuthInit ==
  [users |-> {},
   req |-> [op |-> "none", email |-> "", password |-> ""],
   resp |-> [status |-> 0, body |-> <<"", "">>]]

\* The recordings of the ledger, as a successful read sees them.
Ledger(it) == parseOrEmpty(it)

Blobs(fs) == {f \in fs : InDirectory(f)}

NoCall ==
  [op |-> "none", id |-> Null, uri |-> Null, arg |-> EmptyObject, gen |-> 0,
   failed |-> "none", swallowed |-> FALSE, status |-> "ok", error |-> "",
   ret |-> <<>>]

\* A fresh installation: nothing was ever stored under the key.
Init ==
  /\ item = NullItem
  /\ files = {TmpFile(1)}
  /\ dirExists = FALSE
  /\ uuidCounter = 0
  /\ last = NoCall
  /\ live = {}
  /\ run = <<>>
  /\ base = <<>>
  /\ auth = AuthInit
  /\ tasks = [t \in Tasks |-> IdleTask]
  /\ screen = ScreenInit

----------------------------------------------------------------------------
\* ensureDirectoryExists / initialize

Initialize(fault) ==
  /\ fault \in {"none", "getInfoAsync"}
  /\ dirExists' = (dirExists \/ fault = "none")
  /\ last' = [NoCall EXCEPT !.op = "initialize",
                            !.failed = fault,
                            !.status = IF fault = "none" THEN "ok" ELSE "error",
                            !.error = IF fault = "none" THEN "" ELSE "FileSystem error"]
  /\ run' = <<>> /\ base' = <<>>
  /\ UNCHANGED <<item, files, uuidCounter, live, others>>

----------------------------------------------------------------------------
\* saveRecording

\* The object literal of the new recording: the defaults, then ...metadata.
newRecording(id, filename, destinationUri, createdAt, metadata) ==
  Spread([id |-> id,
          filename |-> filename,
          uri |-> destinationUri,
          createdAt |-> createdAt,
          duration |-> OrZero(Get(metadata, "duration")),
          size |-> OrZero(Get(metadata, "size")),
          analysisResult |-> Null],
         metadata)

\* The other order, [...existingRecordings, recording]: oldest first.
addRecordingLast(recording, existingRecordings) == existingRecordings \o <<recording>>

\* [recording, ...existingRecordings]
addRecording(recording, existingRecordings) == <<recording>> \o existingRecordings

SaveRecording(uri, metadata, fault) ==
  /\ uuidCounter < MaxSaves
  /\ fault \in {"none", "getInfoAsync", "copyAsync", "getItem", "setItem"}
  /\ LET n == uuidCounter + 1
         id == uuidv4(n)
         filename == filenameOf(id)
         destinationUri == destinationUriOf(filename)
         recording == newRecording(id, filename, destinationUri, toISOString(n), metadata)
         failed ==
           IF fault = "getInfoAsync" THEN "getInfoAsync"
           ELSE IF fault = "copyAsync" \/ uri \notin files THEN "copyAsync"
           ELSE IF fault = "getItem" THEN "getItem"
           ELSE IF ParseThrows(item) THEN "JSON.parse"
           ELSE IF fault = "setItem" THEN "setItem"
           ELSE "none"
         copied == failed \in {"getItem", "JSON.parse", "setItem", "none"}
         updatedRecordings == addRecording(recording, parseOrEmpty(item))
     IN /\ dirExists' = (dirExists \/ failed # "getInfoAsync")
        /\ uuidCounter' = IF failed = "getInfoAsync" THEN uuidCounter ELSE n
        /\ files' = IF copied THEN files \cup {destinationUri} ELSE files
        /\ item' = IF failed = "none" THEN JSONstringify(updatedRecordings) ELSE item
        /\ last' = [NoCall EXCEPT
                      !.op = "saveRecording",
                      !.uri = uri,
                      !.arg = metadata,
                      !.gen = IF failed = "getInfoAsync" THEN 0 ELSE n,
                      !.failed = failed,
                      !.status = IF failed = "none" THEN "ok" ELSE "error",
                      !.error = IF failed = "none" THEN ""
                                ELSE IF failed = "getInfoAsync" THEN "FileSystem error"
                                ELSE "Failed to save recording",
                      !.ret = IF failed = "none" THEN <<recording>> ELSE <<>>]
        /\ live' = IF failed = "none" THEN live \cup {Get(recording, "id")} ELSE live
        /\ run' = IF failed = "none" THEN Append(run, recording) ELSE <<>>
        /\ base' = IF failed # "none" THEN <<>>
                   ELSE IF run = <<>> THEN parseOrEmpty(item) ELSE base
  /\ UNCHANGED others

----------------------------------------------------------------------------
\* getRecordings / getRecordingById

\* The catch of getRecordings swallows a rejected getItem and a JSON.parse
\* error, and answers [].
getRecordingsSwallows(it, fault) == fault = "getItem" \/ ParseThrows(it)

\* A getRecordings without its catch: the error reaches the caller.
getRecordingsThrows(it, fault) ==
  IF getRecordingsSwallows(it, fault) THEN "error" ELSE "ok"

\* It returns in the try and in the catch: the caller never gets an error.
getRecordingsStatus(it, fault) == "ok"

getRecordings(it, fault) ==
  IF getRecordingsSwallows(it, fault) THEN <<>> ELSE parseOrEmpty(it)

\* recordings.find(r => r.id === id): the first match, as <<r>>, or <<>>
find(recordings, id) ==
  LET hits == {i \in 1..Len(recordings) : Get(recordings[i], "id") = id}
  IN IF hits = {} THEN <<>>
     ELSE <<recordings[CHOOSE i \in hits : \A j \in hits : i <= j]>>

getRecordingById(it, id, fault) == find(getRecordings(it, fault), id)

GetRecordings(fault) ==
  /\ fault \in {"none", "getItem"}
  /\ last' = [NoCall EXCEPT !.op = "getRecordings",
                            !.failed = fault,
                            !.status = getRecordingsStatus(item, fault),
                            !.swallowed = getRecordingsSwallows(item, fault),
                            !.ret = getRecordings(item, fault)]
  /\ run' = <<>> /\ base' = <<>>
  /\ UNCHANGED <<item, files, dirExists, uuidCounter, live, others>>

GetRecordingById(id, fault) ==
  /\ fault \in {"none", "getItem"}
  /\ last' = [NoCall EXCEPT !.op = "getRecordingById",
                            !.id = id,
                            !.failed = fault,
                            !.status = getRecordingsStatus(item, fault),
                            !.swallowed = getRecordingsSwallows(item, fault),
                            !.ret = getRecordingById(item, id, fault)]
  /\ run' = <<>> /\ base' = <<>>
  /\ UNCHANGED <<item, files, dirExists, uuidCounter, live, others>>

----------------------------------------------------------------------------
\* updateRecording

\* recordings.map(r => r.id === id ? { ...r, ...updates } : r)
mapUpdates(recordings, id, updates) ==
  [i \in 1..Len(recordings) |->
     IF Get(recordings[i], "id") = id THEN Spread(recordings[i], updates)
     ELSE recordings[i]]

UpdateRecording(id, updates, fault) ==
  /\ fault \in {"none", "getItem", "setItem"}
  /\ LET recordings == getRecordings(item, fault)
         updatedRecordings == mapUpdates(recordings, id, updates)
         failed == IF fault = "setItem" THEN "setItem" ELSE "none"
     IN /\ item' = IF failed = "none" THEN JSONstringify(updatedRecordings) ELSE item
        /\ last' = [NoCall EXCEPT
                      !.op = "updateRecording",
                      !.id = id,
                      !.arg = updates,
                      !.failed = failed,
                      !.swallowed = getRecordingsSwallows(item, fault),
                      !.status = IF failed = "none" THEN "ok" ELSE "error",
                      !.error = IF failed = "none" THEN ""
                                ELSE "Failed to update recording",
                      !.ret = IF failed = "none" THEN find(updatedRecordings, id)
                              ELSE <<>>]
  /\ run' = <<>> /\ base' = <<>>
  /\ UNCHANGED <<files, dirExists, uuidCounter, live, others>>

----------------------------------------------------------------------------
\* deleteRecording

\* recordings.filter(r => r.id !== id)
filterOut(recordings, id) ==
  SelectSeq(recordings, LAMBDA r : Get(r, "id") # id)

\* The other order of lines 126-130: setItem of the filtered ledger first, then
\* deleteAsync, so that a failed deleteAsync comes after the write.
itemWrittenFirst(failed, it, updatedRecordings) ==
  IF failed \in {"none", "deleteAsync"} THEN JSONstringify(updatedRecordings) ELSE it

\* deleteAsync is awaited before the ledger is filtered and written: the item
\* changes only when neither the lookup, nor deleteAsync, nor setItem failed.
itemAfterDelete(failed, it, updatedRecordings) ==
  IF failed = "none" THEN JSONstringify(updatedRecordings) ELSE it

\* The file is gone once deleteAsync has succeeded, whatever setItem does.
filesAfterDelete(failed, fs, uri) ==
  IF failed \in {"setItem", "none"} THEN fs \ {uri} ELSE fs

DeleteRecording(id, fault) ==
  /\ fault \in {"none", "getItem", "deleteAsync", "setItem"}
  /\ LET recordings == getRecordings(item, fault)
         recordingToDelete == find(recordings, id)
         uri == IF recordingToDelete = <<>> THEN Undefined
                ELSE Get(recordingToDelete[1], "uri")
         failed ==
           IF recordingToDelete = <<>> THEN "notFound"
           ELSE IF fault = "deleteAsync" \/ uri \notin files THEN "deleteAsync"
           ELSE IF fault = "setItem" THEN "setItem"
           ELSE "none"
         updatedRecordings == filterOut(recordings, id)
     IN /\ files' = filesAfterDelete(failed, files, uri)
        /\ item' = itemAfterDelete(failed, item, updatedRecordings)
        /\ live' = IF failed = "none" THEN live \ {id} ELSE live
        /\ last' = [NoCall EXCEPT
                      !.op = "deleteRecording",
                      !.id = id,
                      !.uri = uri,
                      !.failed = failed,
                      !.swallowed = getRecordingsSwallows(item, fault),
                      !.status = IF failed = "none" THEN "ok" ELSE "error",
                      !.error = IF failed = "none" THEN ""
                                ELSE "Failed to delete recording"]
  /\ run' = <<>> /\ base' = <<>>
  /\ UNCHANGED <<dirExists, uuidCounter, others>>

----------------------------------------------------------------------------
\* getAvailableStorage

\* { total: totalSpace, free: freeSpace, used: totalSpace - freeSpace }
storageInfo(totalSpace, freeSpace) ==
  [total |-> Num(totalSpace), free |-> Num(freeSpace),
   used |-> Num(totalSpace - freeSpace)]

GetAvailableStorage(fault) ==
  /\ fault \in {"none", "getFreeDiskStorageAsync"}
  /\ last' = [NoCall EXCEPT
                !.op = "getAvailableStorage",
                !.failed = fault,
                !.ret = IF fault = "none"
                        THEN <<storageInfo(64, 64 - Cardinality(files))>>
                        ELSE <<>>]
  /\ run' = <<>> /\ base' = <<>>
  /\ UNCHANGED <<item, files, dirExists, uuidCounter, live, others>>

----------------------------------------------------------------------------

Next ==
  \/ \E fault \in Faults : Initialize(fault)
  \/ \E uri \in SourceUris, metadata \in Metadatas, fault \in Faults :
       SaveRecording(uri, metadata, fault)
  \/ \E fault \in Faults : GetRecordings(fault)
  \/ \E id \in Ids, fault \in Faults : GetRecordingById(id, fault)
  \/ \E id \in Ids, updates \in Updates, fault \in Faults :
       UpdateRecording(id, updates, fault)
  \/ \E id \in Ids, fault \in Faults : DeleteRecording(id, fault)
  \/ \E fault \in Faults : GetAvailableStorage(fault)

Spec == Init /\ [][Next]_vars

\* The same service started on a stored item that JSON.parse rejects.
InitCorrupt ==
  /\ item = CorruptItem
  /\ files = {TmpFile(1)}
  /\ dirExists = FALSE
  /\ uuidCounter = 0
  /\ last = NoCall
  /\ live = {}
  /\ run = <<>>
  /\ base = <<>>
  /\ auth = AuthInit
  /\ tasks = [t \in Tasks |-> IdleTask]
  /\ screen = ScreenInit

SpecCorrupt == InitCorrupt /\ [][Next]_vars

\* Either start.
SpecAny == (Init \/ InitCorrupt) /\ [][Next]_vars

----------------------------------------------------------------------------
\* The authentication backend (UserService behind AuthController)

Emails == {"ann@example.org", "bob@example.org"}
Passwords == {"pw1", "pw2"}

\* The id of the request body: absent, or one the client chose.
NoId == <<"null", 0>>
RequestIds == {NoId, <<"client", 1>>}

\* passwordEncoder.encode / passwordEncoder.matches
encode(rawPassword) == <<"encoded", rawPassword>>
matches(rawPassword, encodedPassword) == encodedPassword = encode(rawPassword)

\* jwtUtil.generateToken(email): an opaque token string
generateToken(email) == <<"token", email>>

Message(text) == <<"message", text>>

\* userRepository.existsByEmail / findByEmail (an Optional: a set of at most one)
existsByEmail(users, email) == \E u \in users : u.email = email
findByEmail(users, email) == {u \in users : u.email = email}

\* userRepository.save: a document without id gets a new one; a document with
\* an id replaces the stored document of that id.
save(users, user) ==
  LET generated == {u \in users : u.id[1] = "oid"}
      id == IF user.id = NoId THEN <<"oid", Cardinality(generated) + 1>> ELSE user.id
  IN {u \in users : u.id # id} \cup {[user EXCEPT !.id = id]}

\* A register that stores the user without looking for the email.
registerAlways(users, user) ==
  [users |-> save(users, [user EXCEPT !.password = encode(user.password),
                                      !.role = "ROLE_USER"]),
   resp |-> [status |-> 201, body |-> Message("User registered successfully")]]

\* UserService.register
register(users, user) ==
  IF existsByEmail(users, user.email)
  THEN [users |-> users,
        resp |-> [status |-> 400, body |-> Message("Email already in use")]]
  ELSE [users |-> save(users, [user EXCEPT !.password = encode(user.password),
                                           !.role = "ROLE_USER"]),
        resp |-> [status |-> 201, body |-> Message("User registered successfully")]]

\* A login that does not compare the passwords.
loginAnyPassword(users, user) ==
  LET existingUser == findByEmail(users, user.email)
  IN IF existingUser = {}
     THEN [status |-> 401, body |-> Message("Invalid email or password")]
     ELSE [status |-> 200,
           body |-> generateToken((CHOOSE u \in existingUser : TRUE).email)]

\* UserService.login
login(users, user) ==
  LET existingUser == findByEmail(users, user.email)
  IN IF existingUser = {}
     THEN [status |-> 401, body |-> Message("Invalid email or password")]
     ELSE IF ~matches(user.password, (CHOOSE u \in existingUser : TRUE).password)
     THEN [status |-> 401, body |-> Message("Invalid email or password")]
     ELSE [status |-> 200,
           body |-> generateToken((CHOOSE u \in existingUser : TRUE).email)]

\* POST /api/auth/register
Register(id, email, password) ==
  /\ LET out == register(auth.users,
                         [id |-> id, email |-> email, password |-> password,
                          role |-> ""])
     IN auth' = [users |-> out.users,
                 req |-> [op |-> "register", email |-> email, password |-> password],
                 resp |-> out.resp]
  /\ UNCHANGED <<storageVars, tasks, screen>>

\* POST /api/auth/login
Login(email, password) ==
  /\ auth' = [users |-> auth.users,
              req |-> [op |-> "login", email |-> email, password |-> password],
              resp |-> login(auth.users,
                             [id |-> NoId, email |-> email, password |-> password,
                              role |-> ""])]
  /\ UNCHANGED <<storageVars, tasks, screen>>

NextAuth ==
  \/ \E id \in RequestIds, email \in Emails, password \in Passwords :
       Register(id, email, password)
  \/ \E email \in Emails, password \in Passwords : Login(email, password)

SpecAuth == Init /\ [][NextAuth]_vars

----------------------------------------------------------------------------
\* Overlapping calls of the storage service: each await of saveRecording,
\* updateRecording and deleteRecording is a step of its own, and the steps of
\* two callers interleave.

OtherTask(t) == CHOOSE u \in Tasks : u # t

Returned(t) == tasks[t].pc = "returned"

\* The recordings these callers update and delete: the first two saved.
Targets == {uuidv4(1), uuidv4(2)}

\* The object passed to updateRecording by these callers.
analysisUpdate == [analysisResult |-> Str("positive")]

\* A caller invokes saveRecording(uri), updateRecording(id, updates) or
\* deleteRecording(id); the call runs up to its first await.
CallService(t, op, id) ==
  /\ Returned(t)
  /\ op \in {"saveRecording", "updateRecording", "deleteRecording"}
  /\ op = "saveRecording" =>
       uuidCounter + Cardinality({u \in Tasks : tasks[u].pc = "getInfoAsync"}) < MaxSaves
  /\ tasks' =
       [u \in Tasks |->
          IF u = t
          THEN [IdleTask EXCEPT
                  !.op = op,
                  !.pc = IF op = "saveRecording" THEN "getInfoAsync" ELSE "getItem",
                  !.id = IF op = "saveRecording" THEN Null ELSE id,
                  !.alone = Returned(OtherTask(t))]
          ELSE IF Returned(u) THEN tasks[u]
          ELSE [tasks[u] EXCEPT !.alone = FALSE]]
  /\ UNCHANGED <<storageVars, auth, screen>>

\* await ensureDirectoryExists() resolves; id, filename and destinationUri are
\* computed and copyAsync is issued.
ResolveEnsureDirectory(t) ==
  /\ tasks[t].pc = "getInfoAsync"
  /\ dirExists' = TRUE
  /\ uuidCounter' = uuidCounter + 1
  /\ tasks' = [tasks EXCEPT ![t].pc = "copyAsync",
                            ![t].id = uuidv4(uuidCounter + 1)]
  /\ UNCHANGED <<item, files, last, live, run, base, auth, screen>>

\* await FileSystem.copyAsync resolves; the recording object is built and
\* getItem is issued.
ResolveCopy(t) ==
  /\ tasks[t].pc = "copyAsync"
  /\ LET id == tasks[t].id
         destinationUri == destinationUriOf(filenameOf(id))
     IN /\ files' = files \cup {destinationUri}
        /\ tasks' = [tasks EXCEPT
                       ![t].pc = "getItem",
                       ![t].rec = <<newRecording(id, filenameOf(id), destinationUri,
                                                 toISOString(id[2]), EmptyObject)>>]
  /\ UNCHANGED <<item, dirExists, uuidCounter, last, live, run, base, auth, screen>>

\* await AsyncStorage.getItem resolves (inside getRecordings for update and
\* delete); the list to write is computed from what was read. deleteRecording
\* throws when the id is not in the list it read.
ResolveGetItem(t) ==
  /\ tasks[t].pc = "getItem"
  /\ LET recordings == parseOrEmpty(item)
         op == tasks[t].op
         notFound == op = "deleteRecording" /\ find(recordings, tasks[t].id) = <<>>
     IN tasks' = [tasks EXCEPT
                    ![t].pc = IF notFound THEN "returned"
                              ELSE IF op = "deleteRecording" THEN "deleteAsync"
                              ELSE "setItem",
                    ![t].status = IF notFound THEN "error" ELSE "",
                    ![t].recordings = IF notFound THEN <<>> ELSE recordings]
  /\ UNCHANGED <<storageVars, auth, screen>>

\* await FileSystem.deleteAsync(recordingToDelete.uri) resolves, or rejects
\* when the file is not there any more.
ResolveDeleteAsync(t) ==
  /\ tasks[t].pc = "deleteAsync"
  /\ LET uri == Get(find(tasks[t].recordings, tasks[t].id)[1], "uri")
     IN IF uri \in files
        THEN /\ files' = files \ {uri}
             /\ tasks' = [tasks EXCEPT ![t].pc = "setItem"]
        ELSE /\ files' = files
             /\ tasks' = [tasks EXCEPT ![t].pc = "returned",
                                       ![t].status = "error",
                                       ![t].recordings = <<>>]
  /\ UNCHANGED <<item, dirExists, uuidCounter, last, live, run, base, auth, screen>>

\* The list each call writes, from the list it read.
updatedRecordingsOf(task) ==
  IF task.op = "saveRecording" THEN addRecording(task.rec[1], task.recordings)
  ELSE IF task.op = "updateRecording"
  THEN mapUpdates(task.recordings, task.id, analysisUpdate)
  ELSE filterOut(task.recordings, task.id)

\* await AsyncStorage.setItem resolves and the call returns.
ResolveSetItem(t) ==
  /\ tasks[t].pc = "setItem"
  /\ item' = JSONstringify(updatedRecordingsOf(tasks[t]))
  /\ tasks' = [tasks EXCEPT ![t].pc = "returned",
                            ![t].status = "ok",
                            ![t].recordings = <<>>]
  /\ UNCHANGED <<files, dirExists, uuidCounter, last, live, run, base, auth, screen>>

NextConc ==
  \/ \E t \in Tasks, op \in {"saveRecording", "updateRecording", "deleteRecording"},
        id \in Targets : CallService(t, op, id)
  \/ \E t \in Tasks : ResolveEnsureDirectory(t)
  \/ \E t \in Tasks : ResolveCopy(t)
  \/ \E t \in Tasks : ResolveGetItem(t)
  \/ \E t \in Tasks : ResolveDeleteAsync(t)
  \/ \E t \in Tasks : ResolveSetItem(t)

SpecConc == Init /\ [][NextConc]_vars

----------------------------------------------------------------------------
\* The record screen (RecordScreen): presses of the record, pause/resume and
\* stop buttons, the completions of the async calls they await, and the ticks
\* of the duration timer.

\* setInterval: a new interval id, added to the active ones.
setInterval(active) == CHOOSE n \in 1..MaxTimers : n \notin active

\* if (timerRef.current) { clearInterval(timerRef.current); timerRef.current = null; }
clearTimer(s) ==
  [s EXCEPT !.intervals = s.intervals \ {s.timerRef}, !.timerRef = 0]

\* timerRef.current = setInterval(...): the previous value is overwritten.
startTimer(s) ==
  [s EXCEPT !.intervals = s.intervals \cup {setInterval(s.intervals)},
            !.timerRef = setInterval(s.intervals)]

\* The finally block of stopRecording.
finallyOfStop(s) ==
  [s EXCEPT !.isRecording = FALSE, !.isPaused = FALSE, !.isSaving = FALSE,
            !.recordingDuration = 0, !.stopping = "no", !.stopped = TRUE]

\* The calls of startAudioRecording, pauseAsync and startAsync not yet settled.
Pending(s) == s.starts + s.pauses + s.resumes

ScreenStep(s) ==
  /\ screen' = s
  /\ UNCHANGED <<storageVars, auth, tasks>>

\* The record button (shown while !isRecording): startRecording up to its await.
PressStart ==
  /\ ~screen.isRecording
  /\ Pending(screen) < MaxPending
  /\ ScreenStep([screen EXCEPT !.isRecording = TRUE, !.isPaused = FALSE,
                               !.recordingDuration = 0, !.starts = @ + 1,
                               !.stopped = FALSE])

\* await startAudioRecording() returns a recording object, returns nothing, or
\* throws.
ResolveStart(outcome) ==
  /\ screen.starts > 0
  /\ outcome \in {"object", "null", "throws"}
  /\ outcome = "object" => Cardinality(screen.intervals) < MaxTimers
  /\ ScreenStep(IF outcome = "object"
                THEN startTimer([screen EXCEPT !.starts = @ - 1,
                                               !.recording = "object"])
                ELSE [screen EXCEPT !.starts = @ - 1, !.isRecording = FALSE])

\* The pause/resume button (shown while isRecording, disabled while isSaving):
\* pauseRecording up to its await, on the branch isPaused selects.
PressPause ==
  /\ screen.isRecording
  /\ ~screen.isSaving
  /\ screen.recording # "null"
  /\ Pending(screen) < MaxPending
  /\ ScreenStep(IF screen.isPaused
                THEN [screen EXCEPT !.resumes = @ + 1]
                ELSE [screen EXCEPT !.pauses = @ + 1])

\* await recording.current.pauseAsync() resolves or rejects.
ResolvePauseAsync(resolved) ==
  /\ screen.pauses > 0
  /\ ScreenStep(IF resolved
                THEN clearTimer([screen EXCEPT !.pauses = @ - 1, !.isPaused = TRUE])
                ELSE [screen EXCEPT !.pauses = @ - 1])

\* await recording.current.startAsync() resolves or rejects.
ResolveStartAsync(resolved) ==
  /\ screen.resumes > 0
  /\ resolved => Cardinality(screen.intervals) < MaxTimers
  /\ ScreenStep(IF resolved
                THEN startTimer([screen EXCEPT !.resumes = @ - 1, !.isPaused = FALSE])
                ELSE [screen EXCEPT !.resumes = @ - 1])

\* The stop button (shown while isRecording, disabled while isSaving):
\* stopRecording up to its first await.
PressStop ==
  /\ screen.isRecording
  /\ ~screen.isSaving
  /\ screen.recording # "null"
  /\ ScreenStep(clearTimer([screen EXCEPT !.isSaving = TRUE,
                                          !.stopping = "stopAudioRecording",
                                          !.stopped = FALSE]))

\* await stopAudioRecording(recording.current) returns a result with a uri,
\* returns none, or throws (recording.current is then left as it was).
ResolveStopAudio(outcome) ==
  /\ screen.stopping = "stopAudioRecording"
  /\ outcome \in {"uri", "none", "throws"}
  /\ ScreenStep(IF outcome = "uri"
                THEN [screen EXCEPT !.recording = "null", !.stopping = "saveRecording"]
                ELSE IF outcome = "none"
                THEN finallyOfStop([screen EXCEPT !.recording = "null"])
                ELSE finallyOfStop(screen))

\* await saveRecording(recordingData) returns, truthy or not, or throws: the
\* finally block runs in each case.
ResolveSave ==
  /\ screen.stopping = "saveRecording"
  /\ ScreenStep(finallyOfStop(screen))

\* An active interval fires: setRecordingDuration(prev => prev + 1).
Tick ==
  /\ screen.intervals # {}
  /\ screen.recordingDuration < MaxDuration
  /\ ScreenStep([screen EXCEPT !.recordingDuration = @ + 1])

NextScreen ==
  \/ PressStart
  \/ \E outcome \in {"object", "null", "throws"} : ResolveStart(outcome)
  \/ PressPause
  \/ \E resolved \in BOOLEAN : ResolvePauseAsync(resolved)
  \/ \E resolved \in BOOLEAN : ResolveStartAsync(resolved)
  \/ PressStop
  \/ \E outcome \in {"uri", "none", "throws"} : ResolveStopAudio(outcome)
  \/ ResolveSave
  \/ Tick

SpecScreen == Init /\ [][NextScreen]_vars

----------------------------------------------------------------------------
\* Properties

Reverse(seq) == [k \in 1..Len(seq) |-> seq[Len(seq) + 1 - k]]

Saved == last.op = "saveRecording" /\ last.status = "ok"

\* C1: a successful saveRecording returns and persists a record whose id,
\* filename, uri and createdAt are the system-assigned values (the fresh uuid,
\* the filename derived from it, the destination of the copied blob, the
\* creation time), whatever the caller's metadata holds for these keys.
SystemAssigned(r, n) ==
  /\ Get(r, "id") = uuidv4(n)
  /\ Get(r, "filename") = filenameOf(uuidv4(n))
  /\ Get(r, "uri") = destinationUriOf(filenameOf(uuidv4(n)))
  /\ Get(r, "createdAt") = toISOString(n)

C1_SystemAssignedFields ==
  Saved => /\ SystemAssigned(last.ret[1], last.gen)
           /\ SystemAssigned(Ledger(item)[1], last.gen)

\* C2: after any run of sequential successful saveRecording calls, started
\* from any ledger, getRecordings returns the records of the run in reverse
\* call order, in front of all the records that were there before the run.
C2_ReverseCallOrder ==
  run # <<>> =>
    getRecordings(item, "none") = Reverse(JSONstringify(run).list) \o base

C2_Witness ==
  /\ Saved
  /\ Len(run) >= 2
  /\ Get(run[1], "id") # Get(run[2], "id")
  /\ getRecordings(item, "none")[1] = stringifyObject(run[Len(run)])

\* C3: an id returned by saveRecording is found by getRecordingById for as
\* long as no deleteRecording of it has succeeded, whatever other calls were
\* made; after a successful deleteRecording(id), getRecordingById(id) is absent.
C3_FoundUntilDeleted ==
  /\ \A id \in live : getRecordingById(item, id, "none") # <<>>
  /\ (last.op = "deleteRecording" /\ last.status = "ok")
       => getRecordingById(item, last.id, "none") = <<>>

\* C4: updateRecording(id, {analysisResult: X}) on an id of the ledger changes
\* only the analysisResult of the record with that id: its other fields, every
\* other record, and the length and order of the ledger read the same after
\* the call as before it.
FirstIndex(recordings, id) ==
  CHOOSE i \in 1..Len(recordings) :
    /\ Get(recordings[i], "id") = id
    /\ \A j \in 1..(i - 1) : Get(recordings[j], "id") # id

SameBut(r1, r2, key) ==
  \A k \in (DOMAIN r1 \cup DOMAIN r2) \ {key} : Get(r1, k) = Get(r2, k)

C4_OnlyAnalysisResult ==
  [][ ( /\ last'.op = "updateRecording"
        /\ DOMAIN last'.arg = {"analysisResult"}
        /\ find(Ledger(item), last'.id) # <<>> )
      => LET before == Ledger(item)
             after == Ledger(item')
             at == FirstIndex(before, last'.id)
         IN /\ Len(after) = Len(before)
            /\ \A k \in 1..Len(before) :
                 IF k = at THEN SameBut(before[k], after[k], "analysisResult")
                 ELSE after[k] = before[k] ]_vars

\* C5: deleteRecording(id) with an id that no record of the ledger has changes
\* neither the ledger nor any file, and signals the not-found error, which the
\* caller can tell from a storage failure.
NotFoundError == "Recording not found"

C5_NotFoundSignalled ==
  [][ (last'.op = "deleteRecording" /\ find(Ledger(item), last'.id) = <<>>)
      => /\ item' = item
         /\ files' = files
         /\ last'.status = "error"
         /\ last'.error = NotFoundError ]_vars

\* C6: a successful deleteRecording(id) removes exactly the record with that
\* id: the ledger is the previous one without that one record, the others in
\* their previous order, and the file at the record's uri is gone.
C6_RemovesExactlyOne ==
  [][ (last'.op = "deleteRecording" /\ last'.status = "ok")
      => LET before == Ledger(item)
             after == Ledger(item')
             at == FirstIndex(before, last'.id)
         IN /\ find(before, last'.id) # <<>>
            /\ after = SubSeq(before, 1, at - 1) \o SubSeq(before, at + 1, Len(before))
            /\ find(after, last'.id) = <<>>
            /\ Get(before[at], "uri") \notin files' ]_vars

\* C7: no two records of the ledger have the same id.
C7_UniqueIds ==
  \A i, j \in 1..Len(Ledger(item)) :
    Get(Ledger(item)[i], "id") = Get(Ledger(item)[j], "id") => i = j

\* C8: after every completed call the ledger has as many records as the
\* recordings directory has files, and every record's uri is one of them.
C8_LedgerMatchesBlobs ==
  last.op # "none" =>
    /\ Len(Ledger(item)) = Cardinality(Blobs(files))
    /\ \A k \in 1..Len(Ledger(item)) : Get(Ledger(item)[k], "uri") \in Blobs(files)

\* C9: when deleteRecording(id) finds the record and deleting its file fails,
\* the call fails with an error and the ledger is unchanged: the record stays.
C9_BlobFailureKeepsRecord ==
  [][ (last'.op = "deleteRecording" /\ last'.failed = "deleteAsync")
      => /\ last'.status = "error"
         /\ item' = item
         /\ find(Ledger(item'), last'.id) # <<>>
         /\ find(Ledger(item'), last'.id) = find(Ledger(item), last'.id) ]_vars

C9_Witness ==
  /\ last.op = "deleteRecording"
  /\ last.failed = "deleteAsync"
  /\ last.status = "error"
  /\ find(Ledger(item), last.id) # <<>>
  /\ Get(find(Ledger(item), last.id)[1], "uri") \in files

\* C10: a saveRecording, updateRecording or deleteRecording that fails raises
\* an error and leaves the persisted ledger and the files as they were; the
\* one exception is the file a saveRecording leaves behind when its copy
\* succeeded and its ledger read or write failed.  A saveRecording of a source
\* that does not exist fails and leaves the number of ledger entries as it was.
C10_FailureLeavesState ==
  [][ /\ ( /\ last'.op \in {"saveRecording", "updateRecording", "deleteRecording"}
           /\ last'.status = "error" )
         => /\ last'.error # ""
            /\ item' = item
            /\ \/ files' = files
               \/ /\ last'.op = "saveRecording"
                  /\ last'.failed \in {"getItem", "JSON.parse", "setItem"}
                  /\ files' =
                       files \cup {destinationUriOf(filenameOf(uuidv4(last'.gen)))}
      /\ (last'.op = "saveRecording" /\ last'.uri \notin files)
         => /\ last'.status = "error"
            /\ Len(Ledger(item')) = Len(Ledger(item)) ]_vars

\* C11: updateRecording(id, partialFields) with an id that no record has
\* returns absent, raises no error and leaves the persisted item under the key
\* exactly as it was.  (Stated for the calls of the claim in which a list is
\* stored and setItem succeeds.)
C11_NoMatchRewritesUnchanged ==
  [][ ( /\ last'.op = "updateRecording"
        /\ last'.failed = "none"
        /\ item.kind = "json"
        /\ find(Ledger(item), last'.id) = <<>> )
      => /\ last'.status = "ok"
         /\ last'.ret = <<>>
         /\ item' = item ]_vars

\* C11, the never-written case: the item is the same before and after.
C11_NeverWrittenUnchanged ==
  [][ ( /\ last'.op = "updateRecording"
        /\ last'.failed = "none"
        /\ ~last'.swallowed
        /\ item.kind = "null" )
      => item' = item ]_vars

\* C12: the reads raise no error and change neither the item nor the files;
\* getRecordings answers [] and getRecordingById absent when nothing was ever
\* written, when the stored item cannot be parsed and when getItem rejects;
\* getAvailableStorage answers absent when the capacity query rejects.
C12_ReadsFailSoft ==
  [][ (last'.op \in {"getRecordings", "getRecordingById", "getAvailableStorage"})
      => /\ last'.status = "ok"
         /\ last'.error = ""
         /\ item' = item
         /\ files' = files
         /\ ( /\ last'.op \in {"getRecordings", "getRecordingById"}
              /\ (item.kind \in {"null", "corrupt"} \/ last'.failed = "getItem") )
            => last'.ret = <<>>
         /\ (last'.op = "getAvailableStorage" /\ last'.failed # "none")
            => last'.ret = <<>> ]_vars

C12_Witness ==
  /\ last.op = "getRecordings"
  /\ last.status = "ok"
  /\ last.ret = <<>>
  /\ \/ item.kind = "corrupt"
     \/ last.failed = "getItem" /\ Ledger(item) # <<>>

\* C14: id, filename, uri and createdAt of a record never change: an
\* updateRecording, whatever its partial fields, leaves these four as they were
\* in every record that stays in the ledger.
Immutable == {"id", "filename", "uri", "createdAt"}

C14_ImmutableFields ==
  [][ (last'.op = "updateRecording" /\ Len(Ledger(item')) = Len(Ledger(item)))
      => \A k \in 1..Len(Ledger(item)) : \A f \in Immutable :
           Get(Ledger(item')[k], f) = Get(Ledger(item)[k], f) ]_vars

\* C16: a saveRecording whose copy succeeds, made when nothing was ever
\* written or when the stored item cannot be parsed, takes the ledger as empty,
\* succeeds, and leaves a ledger of exactly the new record.
C16_SaveReadsFailSoft ==
  [][ ( /\ last'.op = "saveRecording"
        /\ item.kind \in {"null", "corrupt"}
        /\ last'.failed \notin {"getInfoAsync", "copyAsync", "getItem", "setItem"} )
      => /\ last'.status = "ok"
         /\ Len(Ledger(item')) = 1
         /\ Ledger(item') = JSONstringify(last'.ret).list ]_vars

\* C15: register answers 201 and stores the user when the email is not yet
\* registered, and 400 with the users unchanged when it is; login answers 200
\* with a token exactly when the email is registered and the password is the
\* one registered for it, and 401 with one and the same message otherwise.
Registered(users, email) == \E u \in users : u.email = email

C15_AuthResponses ==
  [][ LET q == auth'.req
          r == auth'.resp
      IN /\ (q.op = "register" /\ ~Registered(auth.users, q.email))
            => /\ r.status = 201
               /\ \E u \in auth'.users :
                    u.email = q.email /\ u.password = <<"encoded", q.password>>
         /\ (q.op = "register" /\ Registered(auth.users, q.email))
            => /\ r.status = 400
               /\ auth'.users = auth.users
         /\ q.op = "login"
            => /\ auth'.users = auth.users
               /\ r.status \in {200, 401}
               /\ r.status = 200 <=>
                    \E u \in auth.users :
                      u.email = q.email /\ u.password = <<"encoded", q.password>>
               /\ r.status = 200 => r.body[1] = "token"
               /\ r.status = 401 => r.body = <<"message", "Invalid email or password">> ]_auth

C15_Witness ==
  /\ auth.req.op = "login"
  /\ auth.resp.status = 200
  /\ Cardinality(auth.users) = 2

C17_NoTimerAfterStop == screen.stopped => screen.intervals = {}

\* At most one duration timer interval is active at any time (a second tap on
\* resume before the first startAsync has resolved breaks it).
C17_AtMostOneTimer == Cardinality(screen.intervals) <= 1

\* A timer is active only while a recording is in progress and not paused.
C17_TimerOnlyWhileRecording ==
  screen.intervals # {} => (screen.isRecording /\ ~screen.isPaused)

\* Once stopRecording has completed, isRecording, isPaused and isSaving are
\* false and the duration is 0.
C17_ResetAfterStop ==
  screen.stopped =>
    /\ ~screen.isRecording
    /\ ~screen.isPaused
    /\ ~screen.isSaving
    /\ screen.recordingDuration = 0

====
